---- MODULE Spec2Model ----
(***************************************************************************)
(* A model of the Forth evaluator of forth-tui (src/src/lib.rs).           *)
(*                                                                         *)
(* A word (token) is a sequence of one-character strings, so that          *)
(* to_ascii_uppercase and str::parse::<i32> are computed character by      *)
(* character.  The input text of eval is read one word at a time, as       *)
(* split_whitespace yields it.                                             *)
(***************************************************************************)
EXTENDS Integers, Sequences, FiniteSets, TLC

\* Bounds of the exploration: the number of words fed to one evaluator, per
\* alphabet, and the number of nested calls the thread stack can hold.
ArithLen == 4
OverflowLen == 3
StackLen == 4
ScopeLen == 6
ShadowLen == 6
MaxDepth == 4
CallLen == 5
EditLen == 5

\* pub type Value = i32
ValueMin == -2147483647 - 1
ValueMax == 2147483647

----------------------------------------------------------------------------
\* Words used by the alphabets.

Colon == <<":">>
Semicolon == <<";">>
Plus == <<"+">>
Minus == <<"-">>
Star == <<"*">>
Slash == <<"/">>
WDup == <<"d", "u", "p">>
WDrop == <<"d", "r", "o", "p">>
WSwap == <<"s", "w", "a", "p">>
WOver == <<"o", "v", "e", "r">>
WFoo == <<"f", "o", "o">>
WFOO == <<"F", "O", "O">>
WDupMixed == <<"D", "u", "p">>
WFooMixed == <<"F", "o", "o">>
W0 == <<"0">>
W1 == <<"1">>
W2 == <<"2">>
W3 == <<"3">>
W5 == <<"5">>
W6 == <<"6">>
W10 == <<"1", "0">>
WNeg1 == <<"-", "1">>
WMax == <<"2", "1", "4", "7", "4", "8", "3", "6", "4", "7">>
WMin == <<"-", "2", "1", "4", "7", "4", "8", "3", "6", "4", "8">>

----------------------------------------------------------------------------
\* str::to_ascii_uppercase: a-z are mapped to A-Z, every other character is kept.

UpperChar(c) ==
    CASE c = "a" -> "A" [] c = "b" -> "B" [] c = "c" -> "C" [] c = "d" -> "D"
      [] c = "e" -> "E" [] c = "f" -> "F" [] c = "g" -> "G" [] c = "h" -> "H"
      [] c = "i" -> "I" [] c = "j" -> "J" [] c = "k" -> "K" [] c = "l" -> "L"
      [] c = "m" -> "M" [] c = "n" -> "N" [] c = "o" -> "O" [] c = "p" -> "P"
      [] c = "q" -> "Q" [] c = "r" -> "R" [] c = "s" -> "S" [] c = "t" -> "T"
      [] c = "u" -> "U" [] c = "v" -> "V" [] c = "w" -> "W" [] c = "x" -> "X"
      [] c = "y" -> "Y" [] c = "z" -> "Z" [] OTHER -> c

to_ascii_uppercase(word) == [i \in DOMAIN word |-> UpperChar(word[i])]

\* str::parse::<Value>: an optional sign, then one or more decimal digits, the
\* value accumulated with checked arithmetic (towards the sign, so that
\* ValueMin parses).  The result is [ok, value]; ok is FALSE for
\* Err(ParseIntError).

NotANumber == [ok |-> FALSE, value |-> 0]

DigitValue(c) ==
    CASE c = "0" -> 0 [] c = "1" -> 1 [] c = "2" -> 2 [] c = "3" -> 3
      [] c = "4" -> 4 [] c = "5" -> 5 [] c = "6" -> 6 [] c = "7" -> 7
      [] c = "8" -> 8 [] c = "9" -> 9 [] OTHER -> -1

RECURSIVE ParseDigits(_, _, _, _)
ParseDigits(word, i, acc, negative) ==
    IF i > Len(word) THEN [ok |-> TRUE, value |-> acc]
    ELSE LET d == DigitValue(word[i]) IN
         IF d < 0 THEN NotANumber
         ELSE IF negative
              THEN IF acc < (ValueMin + d + 9) \div 10
                   THEN NotANumber
                   ELSE ParseDigits(word, i + 1, acc * 10 - d, negative)
              ELSE IF acc > (ValueMax - d) \div 10
                   THEN NotANumber
                   ELSE ParseDigits(word, i + 1, acc * 10 + d, negative)

parse(word) ==
    IF Len(word) = 0 THEN NotANumber
    ELSE IF word[1] \in {"+", "-"}
         THEN IF Len(word) = 1 THEN NotANumber
              ELSE ParseDigits(word, 2, 0, word[1] = "-")
         ELSE ParseDigits(word, 1, 0, FALSE)

----------------------------------------------------------------------------
\* i32 arithmetic.  Every intermediate value stays inside the i32 range.

AddOverflows(a, b) ==
    \/ b > 0 /\ a > ValueMax - b
    \/ b < 0 /\ a < ValueMin - b

wrapping_add(a, b) ==
    IF b > 0 /\ a > ValueMax - b THEN (a + ValueMin) + (b + ValueMin)
    ELSE IF b < 0 /\ a < ValueMin - b THEN (a - ValueMin) + (b - ValueMin)
    ELSE a + b

SubOverflows(a, b) ==
    \/ b < 0 /\ a > ValueMax + b
    \/ b > 0 /\ a < ValueMin + b

wrapping_sub(a, b) ==
    IF b < 0 /\ a > ValueMax + b THEN (a + ValueMin) - (b - ValueMin)
    ELSE IF b > 0 /\ a < ValueMin + b THEN (a - ValueMin) - (b + ValueMin)
    ELSE a - b

\* a * b modulo 2^32, from the 16-bit halves of a and b (and the low half of
\* b from its bytes), so that no intermediate product leaves the i32 range.
LowHalf(a) == a % 65536
HighHalf(a) == (a - LowHalf(a)) \div 65536

wrapping_mul(a, b) ==
    LET mid == (((HighHalf(a) * LowHalf(b)) % 65536) + ((LowHalf(a) * HighHalf(b)) % 65536)) % 65536
        p0 == LowHalf(a) * (LowHalf(b) % 256)
        p1 == LowHalf(a) * (LowHalf(b) \div 256)
        low == p0 + (p1 % 256) * 256
        high == (mid + (low \div 65536) + (p1 \div 256)) % 65536
    IN  (IF high >= 32768 THEN high - 65536 ELSE high) * 65536 + (low % 65536)

Abs(a) == IF a < 0 THEN 0 - a ELSE a

MulOverflows(a, b) ==
    IF a = 0 \/ b = 0 THEN FALSE
    ELSE IF a = ValueMin THEN b # 1
    ELSE IF b = ValueMin THEN a # 1
    ELSE IF (a > 0) = (b > 0) THEN Abs(a) > ValueMax \div Abs(b)
    ELSE IF Abs(b) = 1 THEN FALSE
    ELSE Abs(a) > (ValueMax \div Abs(b)) + (IF (ValueMax % Abs(b)) + 1 = Abs(b) THEN 1 ELSE 0)

\* i32 division truncates towards zero; ValueMin / -1 does not fit.
DivOverflows(a, b) == a = ValueMin /\ b = -1

DivPos(a, b) ==
    IF a >= 0 THEN a \div b
    ELSE (a \div b) + (IF a % b = 0 THEN 0 ELSE 1)

truncating_div(a, b) ==
    IF b > 0 THEN DivPos(a, b)
    ELSE IF b = ValueMin THEN (IF a = ValueMin THEN 1 ELSE 0)
    ELSE 0 - DivPos(a, 0 - b)

----------------------------------------------------------------------------
\* The evaluator.

VARIABLES
    stack,                   \* Forth::stack, bottom to top
    definitions,             \* Forth::definitions, in creation order
    pc,                      \* where the caller and eval are
    result,                  \* what the running or last eval returned
    frames,                  \* the active call_user_defined_instruction calls
    definition_name,         \* add_definition: the name word it read
    definition_instructions, \* add_definition: the body words collected
    overflow_checks,         \* the build: are arithmetic overflows checked
    text,                    \* the words still to be read, a set for each
    last,                    \* history: the last eval_instruction call
    top,                     \* history: the last top-level word of eval
    entry,                   \* history: the evaluator and the words of this eval
    textarea,                \* run_app: the lines of the editor
    input_mode,              \* App::input_mode
    keys                     \* run_app: the key events still to come, a set for each

vars == <<stack, definitions, pc, result, frames, definition_name,
          definition_instructions, overflow_checks, text, last, top,
          entry, textarea, input_mode, keys>>

Errors == {"DivisionByZero", "StackUnderflow", "UnknownWord", "InvalidWord"}

\* The process ends: a panic unwinds through eval, a stack overflow aborts.
Fatal == {"Panic", "StackOverflow"}

\* enum Instruction; `arg` is the value of Number and the index of CallDefinition.
Instr(op, arg) == [op |-> op, arg |-> arg]
Maths == {"Add", "Subtract", "Multiply", "Divide"}

\* definitions[index], indices counted from 0 as in the Vec.
Def(index) == definitions[index + 1]

\* usize::saturating_sub(1)
saturating_sub1(n) == IF n = 0 THEN 0 ELSE n - 1

\* The loop of instruction_from_word: definitions.iter().enumerate().rev(),
\* from `index` down; -1 when the loop ends without a match.
RECURSIVE FindDefinition(_, _, _)
FindDefinition(index, canonical, max_index) ==
    IF index < 0 THEN -1
    ELSE IF Def(index).name = canonical /\ index <= max_index THEN index
    ELSE FindDefinition(index - 1, canonical, max_index)

BuiltinOrNumber(word, canonical) ==
    CASE canonical = <<"+">> -> Instr("Add", 0)
      [] canonical = <<"-">> -> Instr("Subtract", 0)
      [] canonical = <<"*">> -> Instr("Multiply", 0)
      [] canonical = <<"/">> -> Instr("Divide", 0)
      [] canonical = <<"D", "U", "P">> -> Instr("Dup", 0)
      [] canonical = <<"D", "R", "O", "P">> -> Instr("Drop", 0)
      [] canonical = <<"S", "W", "A", "P">> -> Instr("Swap", 0)
      [] canonical = <<"O", "V", "E", "R">> -> Instr("Over", 0)
      [] OTHER -> IF parse(word).ok
                  THEN Instr("Number", parse(word).value)
                  ELSE Instr("UnknownWord", 0)

\* A faulty resolver: the built-ins are tried before the definitions.
builtin_before_definition(word, max_index) ==
    LET canonical == to_ascii_uppercase(word)
        found == FindDefinition(Len(definitions) - 1, canonical, max_index)
        builtin == BuiltinOrNumber(word, canonical)
    IN  IF builtin.op \notin {"Number", "UnknownWord"} THEN builtin
        ELSE IF found >= 0 THEN Instr("CallDefinition", found)
        ELSE builtin

\* Instr("UnknownWord", 0) stands for Err(Error::UnknownWord).
\* A faulty resolver: the definitions are searched for the word as written.
case_sensitive_lookup(word, max_index) ==
    LET canonical == to_ascii_uppercase(word)
        found == FindDefinition(Len(definitions) - 1, word, max_index)
    IN  IF found >= 0 THEN Instr("CallDefinition", found)
        ELSE BuiltinOrNumber(word, canonical)

instruction_from_word(word, max_index) ==
    LET canonical == to_ascii_uppercase(word)
        found == FindDefinition(Len(definitions) - 1, canonical, max_index)
    IN  IF found >= 0 THEN Instr("CallDefinition", found)
        ELSE BuiltinOrNumber(word, canonical)

\* The stack operations return the stack they leave and Ok or the error.
Outcome(s, res) == [stack |-> s, res |-> res]

stack_push(s, value) == Append(s, value)

\* Vec::pop: [stack, value, res]
stack_pop(s) ==
    IF Len(s) = 0
    THEN [stack |-> s, value |-> 0, res |-> "StackUnderflow"]
    ELSE [stack |-> SubSeq(s, 1, Len(s) - 1), value |-> s[Len(s)], res |-> "Ok"]

push_value_onto_the_stack(s, value) == Outcome(stack_push(s, value), "Ok")

\* A faulty dup: the value popped is pushed back once.
dup_without_copy(s) ==
    LET p == stack_pop(s) IN
    IF p.res # "Ok" THEN Outcome(p.stack, p.res)
    ELSE Outcome(stack_push(p.stack, p.value), "Ok")

dup(s) ==
    LET p == stack_pop(s) IN
    IF p.res # "Ok" THEN Outcome(p.stack, p.res)
    ELSE Outcome(stack_push(stack_push(p.stack, p.value), p.value), "Ok")

drop(s) ==
    LET p == stack_pop(s) IN Outcome(p.stack, p.res)

\* A faulty swap: the two values popped are pushed back in their old order.
swap_in_place(s) ==
    LET p == stack_pop(s)
        q == stack_pop(p.stack)
    IN  IF p.res # "Ok" THEN Outcome(p.stack, p.res)
        ELSE IF q.res # "Ok" THEN Outcome(q.stack, q.res)
        ELSE Outcome(stack_push(stack_push(q.stack, q.value), p.value), "Ok")

swap(s) ==
    LET p == stack_pop(s) IN
    IF p.res # "Ok" THEN Outcome(p.stack, p.res)
    ELSE LET q == stack_pop(p.stack) IN
         IF q.res # "Ok" THEN Outcome(q.stack, q.res)
         ELSE Outcome(stack_push(stack_push(q.stack, p.value), q.value), "Ok")

\* A faulty over: the top value is copied instead of the one below it.
over_copies_top(s) ==
    LET p == stack_pop(s)
        q == stack_pop(p.stack)
    IN  IF p.res # "Ok" THEN Outcome(p.stack, p.res)
        ELSE IF q.res # "Ok" THEN Outcome(q.stack, q.res)
        ELSE Outcome(stack_push(stack_push(stack_push(q.stack, q.value),
                                           p.value), p.value), "Ok")

over(s) ==
    LET p == stack_pop(s) IN
    IF p.res # "Ok" THEN Outcome(p.stack, p.res)
    ELSE LET q == stack_pop(p.stack) IN
         IF q.res # "Ok" THEN Outcome(q.stack, q.res)
         ELSE Outcome(stack_push(stack_push(stack_push(q.stack, q.value), p.value), q.value), "Ok")

\* One step of the fold closure: [acc, res], res = "Panic" when the build traps.
Overflows(op, acc, v) ==
    CASE op = "Add" -> AddOverflows(acc, v)
      [] op = "Subtract" -> SubOverflows(acc, v)
      [] op = "Multiply" -> MulOverflows(acc, v)
      [] OTHER -> DivOverflows(acc, v)

Combine(op, acc, v) ==
    CASE op = "Add" -> wrapping_add(acc, v)
      [] op = "Subtract" -> wrapping_sub(acc, v)
      [] op = "Multiply" -> wrapping_mul(acc, v)
      [] OTHER -> truncating_div(acc, v)

\* A division that overflows panics in every build; an addition, subtraction
\* or multiplication that overflows panics when overflow checks are on and
\* wraps when they are off.
Traps(op, acc, v) ==
    Overflows(op, acc, v) /\ (op = "Divide" \/ overflow_checks)

\* A faulty fold: the operator applied to the two topmost values only.
FoldTopTwo(op, s, i, acc) ==
    IF Traps(op, s[Len(s) - 1], s[Len(s)]) THEN [acc |-> acc, res |-> "Panic"]
    ELSE [acc |-> Combine(op, s[Len(s) - 1], s[Len(s)]), res |-> "Ok"]

\* self.stack.iter().skip(1).fold(first_value, ...), from position i on.
RECURSIVE Fold(_, _, _, _)
Fold(op, s, i, acc) ==
    IF i > Len(s) THEN [acc |-> acc, res |-> "Ok"]
    ELSE IF Traps(op, acc, s[i]) THEN [acc |-> acc, res |-> "Panic"]
    ELSE Fold(op, s, i + 1, Combine(op, acc, s[i]))

\* A faulty zero check: the bottom value is checked too (no skip(1)).
ZeroAnywhere(s) == \E i \in 1..Len(s) : s[i] = 0

\* for value in self.stack.iter().skip(1) { if *value == 0 ... }
ZeroDivisor(s) == \E i \in 2..Len(s) : s[i] = 0

perform_maths_operation(op, s) ==
    IF Len(s) < 2 THEN Outcome(s, "StackUnderflow")
    ELSE IF op = "Divide" /\ ZeroDivisor(s) THEN Outcome(s, "DivisionByZero")
    ELSE LET f == Fold(op, s, 2, s[1]) IN
         IF f.res # "Ok" THEN Outcome(s, f.res)
         ELSE Outcome(<<f.acc>>, "Ok")

\* The arms of eval_instruction that do not call a definition.
Execute(instruction, s) ==
    CASE instruction.op = "Number" -> push_value_onto_the_stack(s, instruction.arg)
      [] instruction.op \in Maths -> perform_maths_operation(instruction.op, s)
      [] instruction.op = "Dup" -> dup(s)
      [] instruction.op = "Drop" -> drop(s)
      [] instruction.op = "Swap" -> swap(s)
      [] instruction.op = "Over" -> over(s)
      [] OTHER -> Outcome(s, "UnknownWord")

----------------------------------------------------------------------------
\* The input texts explored.  `text` holds, for every word the evaluator has
\* still to read, the set of words it may be: all texts of a bounded length
\* over an alphabet, and the example texts.  The caller may cut a text into
\* several eval calls at any point.

ArithWords == {W0, W1, W2, W3, W10, Plus, Minus, Star, Slash}
OverflowWords == {WMax, WMin, WNeg1, W1, Plus, Minus, Star, Slash}
StackWords == {W1, W2, WDup, WDrop, WSwap, WOver}
ScopeWords == {Colon, Semicolon, WFoo, W5, W6}
ShadowWords == {Colon, Semicolon, Plus, Star, W2, W3}

AllTexts(words, len) == [i \in 1..len |-> words]
OneText(words) == [i \in DOMAIN words |-> {words[i]}]

\* ": foo 5 ; : foo foo 6 ; foo"
ScopingExample ==
    OneText(<<Colon, WFoo, W5, Semicolon, Colon, WFoo, WFoo, W6, Semicolon, WFoo>>)

\* ": + * ; 2 3 +"
ShadowingExample == OneText(<<Colon, Plus, Star, Semicolon, W2, W3, Plus>>)

\* ": foo 5 ; FOO Dup"
CaseExample == OneText(<<Colon, WFoo, W5, Semicolon, WFOO, WDupMixed>>)

\* ": Foo 1 Dup ; foo"
BodyCaseExample == OneText(<<Colon, WFooMixed, W1, WDupMixed, Semicolon, WFoo>>)

\* "1 2 dup drop 3"
DupDropExample == OneText(<<W1, W2, WDup, WDrop, W3>>)

\* "1 2 3 swap swap 5"
SwapSwapExample == OneText(<<W1, W2, W3, WSwap, WSwap, W5>>)

Texts ==
    { AllTexts(ArithWords, ArithLen),
      AllTexts(OverflowWords, OverflowLen),
      AllTexts(StackWords, StackLen),
      AllTexts(ScopeWords, ScopeLen),
      AllTexts(ShadowWords, ShadowLen),
      ScopingExample,
      ShadowingExample,
      CaseExample,
      BodyCaseExample,
      DupDropExample,
      SwapSwapExample }

NoCall == [word |-> <<>>, owner |-> -1, bound |-> 0, size |-> 0,
           instruction |-> Instr("None", 0), before |-> <<>>, outcome |-> "None"]
NoTop == [word |-> <<>>, size |-> 0, before |-> <<>>]

\* The history of eval calls is kept only where `on` is set.
NoEval == [on |-> FALSE, stack |-> <<>>, definitions |-> <<>>, words |-> <<>>]

\* TextArea::default() holds one empty line; App::default() is in Edit mode.
NoLines == << <<>> >>

\* Forth::new(), before the first eval.
Init ==
    /\ stack = <<>>
    /\ definitions = <<>>
    /\ pc = "idle"
    /\ result = "None"
    /\ frames = <<>>
    /\ definition_name = <<>>
    /\ definition_instructions = <<>>
    /\ overflow_checks \in BOOLEAN
    /\ text \in Texts
    /\ last = NoCall
    /\ top = NoTop
    /\ entry = NoEval
    /\ textarea = NoLines
    /\ input_mode = "Edit"
    /\ keys = <<>>

\* A faulty entry: a call that follows a definition left unfinished goes on
\* collecting its body.
EvalResumesDefinition ==
    /\ pc = "idle"
    /\ pc' = IF result = "InvalidWord" /\ definition_instructions # <<>>
             THEN "body" ELSE "dispatch"
    /\ result' = "Running"
    /\ UNCHANGED <<stack, definitions, frames, definition_name,
                   definition_instructions, overflow_checks, text,
                   last, top>>

\* The caller calls eval: let mut words = input.split_whitespace().
Eval ==
    /\ pc = "idle"
    /\ pc' = "dispatch"
    /\ result' = "Running"
    /\ UNCHANGED <<stack, definitions, frames, definition_name,
                   definition_instructions, overflow_checks, text,
                   last, top>>

\* words.next() is None: eval returns Ok(()).
EndOfInput ==
    /\ pc = "dispatch"
    /\ pc' = "idle"
    /\ result' = "Ok"
    /\ UNCHANGED <<stack, definitions, frames, definition_name,
                   definition_instructions, overflow_checks, text,
                   last, top>>

\* A faulty propagation: the error is noted and the evaluation goes on.
ContinueAfterError(res, callers) ==
    /\ frames' = callers
    /\ pc' = IF callers = <<>> THEN "dispatch" ELSE "call"
    /\ result' = res

\* An Err goes up through every `?` (call_user_defined_instruction, eval) to
\* the caller of eval: the calls in progress are left, no further word is read.
Raise(res, callers) ==
    /\ frames' = <<>>
    /\ pc' = "idle"
    /\ result' = res

\* eval_instruction(word, index), called for a word of the body of definition
\* `owner` (-1: a top-level word of eval) with `callers` the calls to return to.
eval_instruction(word, index, owner, callers) ==
    LET instruction == instruction_from_word(word, index)
        call == [word |-> word, owner |-> owner, bound |-> index,
                 size |-> Len(definitions), instruction |-> instruction,
                 before |-> stack, outcome |-> "None"]
        done == Execute(instruction, stack)
    IN  IF instruction.op = "UnknownWord"
        THEN /\ stack' = stack
             /\ last' = [call EXCEPT !.outcome = "UnknownWord"]
             /\ Raise("UnknownWord", callers)
        ELSE IF instruction.op = "CallDefinition"
        THEN /\ stack' = stack
             /\ last' = [call EXCEPT !.outcome = "Call"]
             /\ IF Len(callers) >= MaxDepth
                THEN /\ frames' = callers
                     /\ pc' = "dead"
                     /\ result' = "StackOverflow"
                ELSE /\ frames' = Append(callers, [index |-> instruction.arg, position |-> 1])
                     /\ pc' = "call"
                     /\ result' = result
        ELSE /\ stack' = done.stack
             /\ last' = [call EXCEPT !.outcome = done.res]
             /\ IF done.res = "Ok"
                THEN /\ frames' = callers
                     /\ pc' = IF callers = <<>> THEN "dispatch" ELSE "call"
                     /\ result' = result
                ELSE IF done.res = "Panic"
                THEN /\ frames' = callers
                     /\ pc' = "dead"
                     /\ result' = "Panic"
                ELSE Raise(done.res, callers)

\* eval reads a word other than ":" and evaluates it.
TopLevelWord(word) ==
    /\ pc = "dispatch"
    /\ word # Colon
    /\ text' = Tail(text)
    /\ top' = [word |-> word, size |-> Len(definitions), before |-> stack]
    /\ eval_instruction(word, saturating_sub1(Len(definitions)), -1, <<>>)
    /\ UNCHANGED <<definitions, definition_name, definition_instructions,
                   overflow_checks>>

\* call_user_defined_instruction: the next word of the body of the innermost
\* call, under the bound of that definition.
BodyWord ==
    /\ pc = "call"
    /\ LET frame == frames[Len(frames)]
           body == Def(frame.index).instructions
           max_index == IF frame.index > 0 THEN frame.index - 1 ELSE frame.index
           callers == [frames EXCEPT ![Len(frames)].position = frame.position + 1]
       IN  /\ frame.position <= Len(body)
           /\ eval_instruction(body[frame.position], max_index, frame.index, callers)
    /\ UNCHANGED <<definitions, definition_name, definition_instructions,
                   overflow_checks, text, top>>

\* call_user_defined_instruction: the body is exhausted, Ok(()) is returned.
ReturnFromDefinition ==
    /\ pc = "call"
    /\ LET frame == frames[Len(frames)] IN
           frame.position > Len(Def(frame.index).instructions)
    /\ frames' = SubSeq(frames, 1, Len(frames) - 1)
    /\ pc' = IF Len(frames) = 1 THEN "dispatch" ELSE "call"
    /\ UNCHANGED <<stack, definitions, result, definition_name,
                   definition_instructions, overflow_checks, text,
                   last, top>>

\* A faulty ":": the stack is emptied when a definition starts.
StartDefinitionClearingStack ==
    /\ pc = "dispatch"
    /\ text # <<>>
    /\ Colon \in Head(text)
    /\ text' = Tail(text)
    /\ pc' = "name"
    /\ definition_name' = <<>>
    /\ definition_instructions' = <<>>
    /\ stack' = <<>>
    /\ UNCHANGED <<definitions, result, frames, overflow_checks, last, top>>

\* eval reads ":" and calls add_definition.
StartDefinition ==
    /\ pc = "dispatch"
    /\ text # <<>>
    /\ Colon \in Head(text)
    /\ text' = Tail(text)
    /\ pc' = "name"
    /\ definition_name' = <<>>
    /\ definition_instructions' = <<>>
    /\ UNCHANGED <<stack, definitions, result, frames, overflow_checks,
                   last, top>>

\* A faulty name check: a name that parses as a number is accepted.
ReadNameUnchecked(word) ==
    /\ pc = "name"
    /\ text' = Tail(text)
    /\ definition_name' = word
    /\ pc' = "body"
    /\ result' = result
    /\ UNCHANGED <<stack, definitions, frames, definition_instructions,
                   overflow_checks, last, top>>

\* add_definition: words.next() is Some(word).  The word read is kept in
\* definition_name also when it is refused.
ReadName(word) ==
    /\ pc = "name"
    /\ text' = Tail(text)
    /\ definition_name' = word
    /\ IF parse(word).ok
       THEN pc' = "idle" /\ result' = "InvalidWord"
       ELSE pc' = "body" /\ result' = result
    /\ UNCHANGED <<stack, definitions, frames, definition_instructions,
                   overflow_checks, last, top>>

\* add_definition: words.next() is None.
NameMissing ==
    /\ pc = "name"
    /\ pc' = "idle"
    /\ result' = "InvalidWord"
    /\ UNCHANGED <<stack, definitions, frames, definition_name,
                   definition_instructions, overflow_checks, text,
                   last, top>>

\* A faulty ";": a definition whose name is in the table takes the place of
\* the entry of that name.
ReadBodyWordReplacing(word) ==
    /\ pc = "body"
    /\ text' = Tail(text)
    /\ IF word = Semicolon
       THEN LET new == [name |-> to_ascii_uppercase(definition_name),
                        instructions |-> definition_instructions]
                same == {i \in 1..Len(definitions) : definitions[i].name = new.name}
            IN  /\ definitions' =
                       IF same = {} THEN Append(definitions, new)
                       ELSE [definitions EXCEPT ![CHOOSE i \in same : TRUE] = new]
                /\ definition_instructions' = definition_instructions
                /\ pc' = "dispatch"
       ELSE /\ definitions' = definitions
            /\ definition_instructions' = Append(definition_instructions, word)
            /\ pc' = "body"
    /\ UNCHANGED <<stack, result, frames, definition_name, overflow_checks,
                   last, top>>

\* A faulty body loop: ":" inside a body starts a definition of its own.
ReadBodyWordNesting(word) ==
    /\ pc = "body"
    /\ text' = Tail(text)
    /\ IF word = Semicolon
       THEN /\ definitions' = Append(definitions,
                   [name |-> to_ascii_uppercase(definition_name),
                    instructions |-> definition_instructions])
            /\ definition_instructions' = definition_instructions
            /\ pc' = "dispatch"
       ELSE IF word = Colon
       THEN /\ definitions' = definitions
            /\ definition_instructions' = <<>>
            /\ pc' = "name"
       ELSE /\ definitions' = definitions
            /\ definition_instructions' = Append(definition_instructions, word)
            /\ pc' = "body"
    /\ UNCHANGED <<stack, result, frames, definition_name, overflow_checks,
                   last, top>>

\* add_definition: one turn of `for word in words`.
ReadBodyWord(word) ==
    /\ pc = "body"
    /\ text' = Tail(text)
    /\ IF word = Semicolon
       THEN /\ definitions' = Append(definitions,
                   [name |-> to_ascii_uppercase(definition_name),
                    instructions |-> definition_instructions])
            /\ definition_instructions' = definition_instructions
            /\ pc' = "dispatch"
       ELSE /\ definitions' = definitions
            /\ definition_instructions' = Append(definition_instructions, word)
            /\ pc' = "body"
    /\ UNCHANGED <<stack, result, frames, definition_name, overflow_checks,
                   last, top>>

\* A faulty end of input: the words collected are stored as a definition.
UnterminatedStored ==
    /\ pc = "body"
    /\ pc' = "idle"
    /\ result' = "InvalidWord"
    /\ definitions' = Append(definitions,
           [name |-> to_ascii_uppercase(definition_name),
            instructions |-> definition_instructions])
    /\ UNCHANGED <<stack, frames, definition_name, definition_instructions,
                   overflow_checks, text, last, top>>

\* add_definition: the words end before ";".
Unterminated ==
    /\ pc = "body"
    /\ pc' = "idle"
    /\ result' = "InvalidWord"
    /\ UNCHANGED <<stack, definitions, frames, definition_name,
                   definition_instructions, overflow_checks, text,
                   last, top>>

\* History: eval is entered with this stack and table, and reads this word.
Entered ==
    entry' = IF entry.on
            THEN [on |-> TRUE, stack |-> stack, definitions |-> definitions,
                  words |-> <<>>]
            ELSE entry
Read(word) ==
    entry' = IF entry.on THEN [entry EXCEPT !.words = Append(@, word)] ELSE entry

\* The evaluator used as a library: no front-end is running.
NoFrontEnd == UNCHANGED <<textarea, input_mode, keys>>

Next ==
    \/ Eval /\ Entered /\ NoFrontEnd
    \/ EndOfInput /\ UNCHANGED entry /\ NoFrontEnd
    \/ /\ text # <<>>
       /\ \E word \in Head(text) : TopLevelWord(word) /\ Read(word)
       /\ NoFrontEnd
    \/ BodyWord /\ UNCHANGED entry /\ NoFrontEnd
    \/ ReturnFromDefinition /\ UNCHANGED entry /\ NoFrontEnd
    \/ StartDefinition /\ Read(Colon) /\ NoFrontEnd
    \/ /\ text # <<>>
       /\ \E word \in Head(text) : ReadName(word) /\ Read(word)
       /\ NoFrontEnd
    \/ NameMissing /\ UNCHANGED entry /\ NoFrontEnd
    \/ /\ text # <<>>
       /\ \E word \in Head(text) : ReadBodyWord(word) /\ Read(word)
       /\ NoFrontEnd
    \/ Unterminated /\ UNCHANGED entry /\ NoFrontEnd

Spec == Init /\ [][Next]_vars

----------------------------------------------------------------------------
\* eval as one function of the evaluator (stack and table) and of the words
\* of its input: what one call returns and leaves behind.  The same code as
\* above, read as a whole call instead of one word at a time.

Forth(s, defs, res) == [stack |-> s, definitions |-> defs, res |-> res]

\* instruction_from_word on a given table.
RECURSIVE definition_index(_, _, _, _)
definition_index(defs, index, canonical, max_index) ==
    IF index < 0 THEN -1
    ELSE IF defs[index + 1].name = canonical /\ index <= max_index THEN index
    ELSE definition_index(defs, index - 1, canonical, max_index)

instruction_of(defs, word, max_index) ==
    LET canonical == to_ascii_uppercase(word)
        found == definition_index(defs, Len(defs) - 1, canonical, max_index)
    IN  IF found >= 0 THEN Instr("CallDefinition", found)
        ELSE BuiltinOrNumber(word, canonical)

\* eval_instruction and call_user_defined_instruction: `depth` calls are
\* active, the words of `body` from position i on are still to be executed.
RECURSIVE run_definition(_, _, _, _, _, _)
run_instruction(defs, s, word, max_index, depth) ==
    LET instruction == instruction_of(defs, word, max_index) IN
    IF instruction.op = "UnknownWord" THEN Outcome(s, "UnknownWord")
    ELSE IF instruction.op = "CallDefinition"
    THEN IF depth >= MaxDepth THEN Outcome(s, "StackOverflow")
         ELSE LET index == instruction.arg IN
              run_definition(defs, s, defs[index + 1].instructions, 1,
                             IF index > 0 THEN index - 1 ELSE index, depth + 1)
    ELSE Execute(instruction, s)

run_definition(defs, s, body, i, max_index, depth) ==
    IF i > Len(body) THEN Outcome(s, "Ok")
    ELSE LET done == run_instruction(defs, s, body[i], max_index, depth) IN
         IF done.res # "Ok" THEN done
         ELSE run_definition(defs, done.stack, body, i + 1, max_index, depth)

\* The position of the first ";" at or after position i, 0 when there is none.
RECURSIVE semicolon_after(_, _)
semicolon_after(words, i) ==
    IF i > Len(words) THEN 0
    ELSE IF words[i] = Semicolon THEN i
    ELSE semicolon_after(words, i + 1)

\* eval from word i on; ":" at position i hands the words to add_definition.
RECURSIVE eval_from(_, _, _, _)
eval_from(s, defs, words, i) ==
    IF i > Len(words) THEN Forth(s, defs, "Ok")
    ELSE IF words[i] = Colon
    THEN LET end == semicolon_after(words, i + 2) IN
         IF i + 1 > Len(words) \/ parse(words[i + 1]).ok \/ end = 0
         THEN Forth(s, defs, "InvalidWord")
         ELSE eval_from(s,
                        Append(defs,
                               [name |-> to_ascii_uppercase(words[i + 1]),
                                instructions |-> SubSeq(words, i + 2, end - 1)]),
                        words, end + 1)
    ELSE LET done == run_instruction(defs, s, words[i],
                                     saturating_sub1(Len(defs)), 0) IN
         IF done.res # "Ok" THEN Forth(done.stack, defs, done.res)
         ELSE eval_from(done.stack, defs, words, i + 1)

eval(s, defs, words) == eval_from(s, defs, words, 1)

\* The calls of eval that are followed with the history `entry`: a table is
\* built and used, a definition is left unfinished or refused, a word fails.
CallWords == {Colon, Semicolon, WFoo, W2, Plus}

\* ": foo 1" and then "2"
CollectingExample == OneText(<<Colon, WFoo, W1, W2>>)

\* "1 0 /" and then "2"
DivisionExample == OneText(<<W1, W0, Slash, W2>>)

CallTexts ==
    {AllTexts(CallWords, CallLen), CollectingExample, DivisionExample}

InitCalls ==
    /\ stack = <<>>
    /\ definitions = <<>>
    /\ pc = "idle"
    /\ result = "None"
    /\ frames = <<>>
    /\ definition_name = <<>>
    /\ definition_instructions = <<>>
    /\ overflow_checks \in BOOLEAN
    /\ text \in CallTexts
    /\ last = NoCall
    /\ top = NoTop
    /\ entry = [NoEval EXCEPT !.on = TRUE]
    /\ textarea = NoLines
    /\ input_mode = "Edit"
    /\ keys = <<>>

SpecCalls == InitCalls /\ [][Next]_vars

----------------------------------------------------------------------------
\* The front-end: run_app reads one key event at a time.  `stack` and
\* `definitions` are app.forth, `result` is app.code_status; pc is "idle"
\* while the loop waits for an event, "quit" after its break, "dead" after a
\* panic or a stack overflow of eval.

Key(code, char) == [code |-> code, char |-> char]
Esc == Key("Esc", "")
Enter == Key("Enter", "")
Backspace == Key("Backspace", "")
Char(c) == Key("Char", c)

\* App::toggle_input_mode.
toggle_input_mode(mode) == IF mode = "Edit" THEN "Menu" ELSE "Edit"

\* textarea.input(key) with the cursor at the end of the text, where it is
\* as long as no key moves it: a character is appended to the last line, Enter
\* opens a line, Backspace deletes the last character or else the last line
\* break, a key without a binding (Esc) changes nothing.
input(lines, key) ==
    LET n == Len(lines) IN
    CASE key.code = "Char" -> [lines EXCEPT ![n] = Append(@, key.char)]
      [] key.code = "Enter" -> Append(lines, <<>>)
      [] key.code = "Backspace" ->
            IF lines[n] # <<>>
            THEN [lines EXCEPT ![n] = SubSeq(@, 1, Len(@) - 1)]
            ELSE IF n > 1 THEN SubSeq(lines, 1, n - 1)
            ELSE lines
      [] OTHER -> lines

\* textarea.lines().join("\t")
RECURSIVE join(_, _)
join(lines, i) ==
    IF i > Len(lines) THEN <<>>
    ELSE IF i = Len(lines) THEN lines[i]
    ELSE lines[i] \o <<"\t">> \o join(lines, i + 1)

\* input.split_whitespace(): the maximal runs of characters that are not
\* white space, in order; `word` is the run being read.
WhiteSpace == {" ", "\t"}

RECURSIVE split_whitespace(_, _, _)
split_whitespace(chars, i, word) ==
    IF i > Len(chars)
    THEN IF word = <<>> THEN <<>> ELSE <<word>>
    ELSE IF chars[i] \in WhiteSpace
    THEN IF word = <<>> THEN split_whitespace(chars, i + 1, <<>>)
         ELSE <<word>> \o split_whitespace(chars, i + 1, <<>>)
    ELSE split_whitespace(chars, i + 1, Append(word, chars[i]))

\* The words eval reads from the text of the editor.
Words(lines) == split_whitespace(join(lines, 1), 1, <<>>)

\* A faulty handler: the evaluator is not recreated before the text is
\* evaluated.
KeyEventKeepingForth(key) ==
    /\ pc = "idle"
    /\ keys' = Tail(keys)
    /\ LET mode == IF key = Esc THEN toggle_input_mode(input_mode)
                   ELSE input_mode
       IN  /\ input_mode' = mode
           /\ IF mode = "Menu"
              THEN /\ pc' = IF key = Char("q") THEN "quit" ELSE "idle"
                   /\ UNCHANGED <<textarea, stack, definitions, result>>
              ELSE LET returned == eval(stack, definitions,
                                        Words(input(textarea, key)))
                   IN  /\ textarea' = input(textarea, key)
                       /\ stack' = returned.stack
                       /\ definitions' = returned.definitions
                       /\ result' = returned.res
                       /\ pc' = IF returned.res \in Fatal THEN "dead" ELSE "idle"
    /\ UNCHANGED <<frames, definition_name, definition_instructions,
                   overflow_checks, text, last, top, entry>>

\* run_app: one turn of the loop on Event::Key(key).
KeyEvent(key) ==
    /\ pc = "idle"
    /\ keys' = Tail(keys)
    /\ LET mode == IF key = Esc THEN toggle_input_mode(input_mode)
                   ELSE input_mode
       IN  /\ input_mode' = mode
           /\ IF mode = "Menu"
              THEN /\ pc' = IF key = Char("q") THEN "quit" ELSE "idle"
                   /\ UNCHANGED <<textarea, stack, definitions, result>>
              ELSE LET returned == eval(<<>>, <<>>,
                                        Words(input(textarea, key)))
                   IN  /\ textarea' = input(textarea, key)
                       /\ stack' = returned.stack
                       /\ definitions' = returned.definitions
                       /\ result' = returned.res
                       /\ pc' = IF returned.res \in Fatal THEN "dead" ELSE "idle"
    /\ UNCHANGED <<frames, definition_name, definition_instructions,
                   overflow_checks, text, last, top, entry>>

\* The key events explored: every sequence of a bounded length over a few
\* keys, and three sessions typed key by key.
EditKeys ==
    {Char("1"), Char(" "), Char("+"), Char("q"), Enter, Backspace, Esc}

Typed(chars) == [i \in DOMAIN chars |-> {Char(chars[i])}]

\* "1 2", Enter, "+", then Esc and q
SumSession ==
    Typed(<<"1", " ", "2">>) \o <<{Enter}>> \o Typed(<<"+">>)
        \o <<{Esc}, {Char("q")}>>

\* ": f 1 ; f", then Esc, q or 1 or Esc, and q
DefinitionSession ==
    Typed(<<":", " ", "f", " ", "1", " ", ";", " ", "f">>)
        \o <<{Esc}, {Char("q"), Char("1"), Esc}, {Char("q")}>>

\* ": f f ; f"
RecursionSession == Typed(<<":", " ", "f", " ", "f", " ", ";", " ", "f">>)

Sessions ==
    {[i \in 1..EditLen |-> EditKeys], SumSession, DefinitionSession,
     RecursionSession}

\* App::default() and TextArea::default().
InitApp ==
    /\ stack = <<>>
    /\ definitions = <<>>
    /\ pc = "idle"
    /\ result = "Ok"
    /\ frames = <<>>
    /\ definition_name = <<>>
    /\ definition_instructions = <<>>
    /\ overflow_checks \in BOOLEAN
    /\ text = <<>>
    /\ last = NoCall
    /\ top = NoTop
    /\ entry = NoEval
    /\ textarea = NoLines
    /\ input_mode = "Edit"
    /\ keys \in Sessions

NextApp == keys # <<>> /\ \E key \in Head(keys) : KeyEvent(key)

SpecApp == InitApp /\ [][NextApp]_vars

----------------------------------------------------------------------------
\* The claims.

Max(S) == CHOOSE x \in S : \A y \in S : y <= x

\* The number of operands each built-in requires.
Operands(op) == IF op \in {"Dup", "Drop"} THEN 1 ELSE 2
Builtins == Maths \cup {"Dup", "Drop", "Swap", "Over"}

\* C1: a word of the body of definition k, executed by a call of k, resolves
\* only to a definition with an index strictly less than k.
C1_ScopingInvariant ==
    (last.owner >= 0 /\ last.instruction.op = "CallDefinition")
        => last.instruction.arg < last.owner

\* C2: the calls in progress are never more than the definitions (every call
\* executes its body under a strictly smaller bound), so that eval returns.
C2_BoundedExpansion ==
    /\ Len(frames) <= Len(definitions)
    /\ result # "StackOverflow"

\* C3: a built-in executed on a stack with fewer values than it requires fails
\* with StackUnderflow and leaves the stack as it was.
C3_AtomicUnderflow ==
    (last.instruction.op \in Builtins
        /\ Len(last.before) < Operands(last.instruction.op))
        => (last.outcome = "StackUnderflow" /\ stack = last.before)

\* The left fold of a non-empty stack, defined from its top downwards:
\* ((s[1] op s[2]) op ...) op s[Len(s)].
RECURSIVE LeftFold(_, _)
LeftFold(op, s) ==
    IF Len(s) = 1 THEN s[1]
    ELSE Combine(op, LeftFold(op, SubSeq(s, 1, Len(s) - 1)), s[Len(s)])

\* C4: an arithmetic operation that succeeds replaces the whole stack by the
\* left fold of its values, whatever its depth: 1 2 3 + gives [6], 1 2 3 -
\* gives [-4], 10 2 / gives [5].
C4_LeftFold ==
    (last.instruction.op \in Maths /\ last.outcome = "Ok") =>
        /\ Len(last.before) >= 2
        /\ stack = <<LeftFold(last.instruction.op, last.before)>>
        /\ (last.instruction.op = "Add" /\ last.before = <<1, 2, 3>> => stack = <<6>>)
        /\ (last.instruction.op = "Subtract" /\ last.before = <<1, 2, 3>> => stack = <<-4>>)
        /\ (last.instruction.op = "Divide" /\ last.before = <<10, 2>> => stack = <<5>>)

C4_Witness ==
    /\ last.instruction.op = "Subtract"
    /\ last.before = <<1, 2, 3>>
    /\ last.outcome = "Ok"
    /\ stack = <<-4>>

\* C5: Divide on at least two values fails with DivisionByZero exactly when a
\* value at the second position or above is zero, and then the stack is
\* unchanged; a zero at the bottom alone is no error.
C5_DivisionByZero ==
    (last.instruction.op = "Divide" /\ Len(last.before) >= 2) =>
        /\ (last.outcome = "DivisionByZero")
               <=> (\E i \in 2..Len(last.before) : last.before[i] = 0)
        /\ (last.outcome = "DivisionByZero" => stack = last.before)

C5_Witness ==
    /\ last.instruction.op = "Divide"
    /\ last.outcome = "DivisionByZero"
    /\ Len(last.before) = 3
    /\ last.before[2] = 0
    /\ last.before[3] # 0
    /\ stack = last.before

\* The definitions a word names under a bound, case-insensitively, among the
\* first `size` definitions of the table.
Named(word, max_index, size) ==
    { i \in 0..(size - 1) :
        /\ i <= max_index
        /\ to_ascii_uppercase(Def(i).name) = to_ascii_uppercase(word) }

\* The built-in a word names, case-insensitively ("None" if it names none).
BuiltinNamed(word) ==
    CASE word = Plus -> "Add"
      [] word = Minus -> "Subtract"
      [] word = Star -> "Multiply"
      [] word = Slash -> "Divide"
      [] to_ascii_uppercase(word) = to_ascii_uppercase(WDup) -> "Dup"
      [] to_ascii_uppercase(word) = to_ascii_uppercase(WDrop) -> "Drop"
      [] to_ascii_uppercase(word) = to_ascii_uppercase(WSwap) -> "Swap"
      [] to_ascii_uppercase(word) = to_ascii_uppercase(WOver) -> "Over"
      [] OTHER -> "None"

\* The resolution order: definition, then built-in, then literal.
Resolution(word, named) ==
    IF named # {} THEN Instr("CallDefinition", Max(named))
    ELSE IF BuiltinNamed(word) # "None" THEN Instr(BuiltinNamed(word), 0)
    ELSE IF parse(word).ok THEN Instr("Number", parse(word).value)
    ELSE Instr("UnknownWord", 0)

\* C6: a word resolves to the call of the highest definition it names within
\* the bound, else to the built-in it names, else to the literal it parses as,
\* else to UnknownWord; so a definition named like a built-in shadows it for
\* the top-level words after it (": + * ; 2 3 +" leaves [6]), and a word that
\* names nothing fails with UnknownWord.
C6_ResolutionOrder ==
    /\ last.instruction.op # "None" =>
          last.instruction
              = Resolution(last.word, Named(last.word, last.bound, last.size))
    /\ (last.owner = -1 /\ Named(last.word, last.size, last.size) # {}) =>
          last.instruction
              = Instr("CallDefinition", Max(Named(last.word, last.size, last.size)))
    /\ (/\ definitions = <<[name |-> Plus, instructions |-> <<Star>>]>>
        /\ top = [word |-> Plus, size |-> 1, before |-> <<2, 3>>]
        /\ pc # "call") => stack = <<6>>
    /\ (last.instruction.op = "UnknownWord"
          => (last.outcome = "UnknownWord" /\ stack = last.before))
    /\ (result = "UnknownWord" => last.instruction.op = "UnknownWord")

C6_Witness ==
    /\ definitions = <<[name |-> Plus, instructions |-> <<Star>>]>>
    /\ top = [word |-> Plus, size |-> 1, before |-> <<2, 3>>]
    /\ pc = "dispatch"
    /\ last.instruction.op = "Multiply"
    /\ last.owner = 0
    /\ stack = <<6>>

\* C7: a word of the body of definition k denotes the latest definition of
\* that name with an index less than k, or the built-in or literal if there is
\* none, whatever was defined after k.
C7_DefinitionTimeBinding ==
    last.owner >= 0 =>
        last.instruction
            = Resolution(last.word, Named(last.word, last.owner - 1, last.owner))

\* C8: after ":", eval fails with InvalidWord when no name follows, when the
\* name parses as an integer, and when the words end before ";"; no step of a
\* definition changes the stack, and the table changes only when ";" is read.
DefinitionStep ==
    (pc \in {"name", "body"} \/ pc' = "name") =>
        /\ stack' = stack
        /\ pc' = "name" => definitions' = definitions
        /\ (pc = "name" /\ text' = text) => result' = "InvalidWord"
        /\ (pc = "name" /\ text' # text /\ parse(definition_name').ok)
              => result' = "InvalidWord"
        /\ (pc = "body" /\ text' = text) => result' = "InvalidWord"
        /\ result' = "InvalidWord" => (pc' = "idle" /\ definitions' = definitions)
        /\ result' \in {result, "InvalidWord"}
        /\ definitions' # definitions =>
              (pc = "body" /\ pc' = "dispatch" /\ Semicolon \in Head(text))

C8_MalformedDefinition == [][DefinitionStep]_vars

C8_Witness ==
    /\ result = "InvalidWord"
    /\ pc = "idle"
    /\ definition_name = WFoo
    /\ Len(definition_instructions) = 2
    /\ definitions = <<>>
    /\ stack # <<>>

IsPrefix(s, t) == Len(s) <= Len(t) /\ s = SubSeq(t, 1, Len(s))

\* C9: the first failing word ends eval with its error: the calls in progress
\* are left, nothing changes afterwards until the next eval, and what was on
\* the stack and in the table before the failing word stays (the failing
\* operation itself removes at most the top value).
FailingStep ==
    /\ (result = "Running" /\ result' \in Errors) =>
           /\ pc' = "idle"
           /\ frames' = <<>>
           /\ definitions' = definitions
           /\ IsPrefix(stack', stack)
           /\ Len(stack') >= Len(stack) - 1
    /\ result \in Errors =>
           /\ stack' = stack
           /\ definitions' = definitions
           /\ text' = text
           /\ result' = "Running"

C10_NoProcessTermination ==
    /\ result \notin Fatal
    /\ pc # "dead"

\* C11: the evaluator remains usable after any error.  Under SpecCalls: an
\* eval call that has read no word yet is in dispatch mode, whatever the call
\* before left behind; what a call returns and leaves (stack, table, result)
\* is what eval gives on the stack and table it was entered with and the
\* words it read, so nothing else is carried from one call to the next; and
\* after eval(": foo 1") has failed, eval("2") pushes 2 and defines nothing.
C11_UsableAfterError ==
    entry.on =>
        /\ (entry.words = <<>> /\ pc # "idle") => pc = "dispatch"
        /\ (pc = "idle" /\ result # "None") =>
               LET returned == eval(entry.stack, entry.definitions, entry.words)
               IN  /\ stack = returned.stack
                   /\ definitions = returned.definitions
                   /\ result = returned.res
        /\ ( /\ pc = "idle"
             /\ result # "None"
             /\ entry.words = <<W2>>
             /\ entry.stack = <<>>
             /\ entry.definitions = <<>> ) =>
               /\ stack = <<2>>
               /\ definitions = <<>>
               /\ result = "Ok"

\* eval("2") has returned after eval(": foo 1") failed while collecting.
C11_Witness ==
    /\ entry.on
    /\ pc = "idle"
    /\ result = "Ok"
    /\ entry.words = <<W2>>
    /\ entry.stack = <<>>
    /\ entry.definitions = <<>>
    /\ definition_name = WFoo
    /\ definition_instructions = <<W1>>
    /\ stack = <<2>>
    /\ definitions = <<>>

\* C12: case-insensitivity.  A word resolves as its upper-case form does, so
\* two words that differ only in ASCII case resolve alike in every state (Dup
\* is the built-in Dup, FOO and foo call the definition stored for foo or
\* Foo); a definition is stored under the upper-case form of the name read,
\* every stored name is its own upper-case form, and each word of a body is
\* stored as it was read.
CaseStep ==
    /\ \A i \in 1..Len(definitions') :
           definitions'[i].name = to_ascii_uppercase(definitions'[i].name)
    /\ Len(definitions') = Len(definitions) + 1 =>
           LET stored == definitions'[Len(definitions')] IN
               /\ stored.name = to_ascii_uppercase(definition_name)
               /\ stored.instructions = definition_instructions
    /\ (pc = "body" /\ pc' = "body") =>
           \E word \in Head(text) :
               definition_instructions' = Append(definition_instructions, word)
    /\ last' # last =>
           /\ instruction_from_word(to_ascii_uppercase(last'.word), last'.bound)
                  = last'.instruction
           /\ last'.word = WDupMixed => last'.instruction = Instr("Dup", 0)
           /\ (last'.word \in {WFoo, WFOO} /\ last'.owner = -1
                 /\ last'.size = 1 /\ definitions[1].name = WFOO) =>
                  last'.instruction = Instr("CallDefinition", 0)

C12_CaseInsensitivity == [][CaseStep]_vars

\* ": Foo 1 Dup ; foo" has run: the name is stored as FOO, the body as
\* written, foo called it and Dup in its body duplicated the 1.
C12_Witness ==
    /\ definitions = <<[name |-> WFOO, instructions |-> <<W1, WDupMixed>>]>>
    /\ top.word = WFoo
    /\ last.word = WDupMixed
    /\ last.owner = 0
    /\ last.instruction = Instr("Dup", 0)
    /\ stack = <<1, 1>>

\* C13: on every non-empty stack Dup succeeds and Drop after it succeeds and
\* leaves the stack as it was before the Dup: for the functions dup and drop
\* on every stack reached, and for every Drop that the evaluator executes
\* next after a Dup.
DupDropStep ==
    /\ stack # <<>> =>
           /\ dup(stack).res = "Ok"
           /\ drop(dup(stack).stack) = Outcome(stack, "Ok")
    /\ ( /\ last' # last
         /\ last.instruction.op = "Dup"
         /\ last.before # <<>>
         /\ last'.instruction.op = "Drop" ) =>
           /\ last.outcome = "Ok"
           /\ last'.outcome = "Ok"
           /\ stack' = last.before

C13_DupDrop == [][DupDropStep]_vars

\* "1 2 dup drop" has run, "3" is still to be read.
C13_Witness ==
    /\ text = <<{W3}>>
    /\ last.word = WDrop
    /\ last.outcome = "Ok"
    /\ last.before = <<1, 2, 2>>
    /\ stack = <<1, 2>>

\* C14: on every stack of at least two values Swap succeeds, transposes the
\* two values on top and leaves the values below them alone, and a second
\* Swap succeeds and restores the stack: for the function swap on every stack
\* reached, and for every Swap that the evaluator executes, alone and next
\* after another Swap.
Transposed(s) ==
    [i \in 1..Len(s) |-> IF i = Len(s) THEN s[Len(s) - 1]
                         ELSE IF i = Len(s) - 1 THEN s[Len(s)]
                         ELSE s[i]]

SwapStep ==
    /\ Len(stack) >= 2 =>
           /\ swap(stack) = Outcome(Transposed(stack), "Ok")
           /\ swap(swap(stack).stack) = Outcome(stack, "Ok")
    /\ ( /\ last' # last
         /\ last'.instruction.op = "Swap"
         /\ Len(last'.before) >= 2 ) =>
           /\ last'.outcome = "Ok"
           /\ stack' = Transposed(stack)
           /\ (last.instruction.op = "Swap" /\ Len(last.before) >= 2) =>
                  stack' = last.before

C14_SwapSwap == [][SwapStep]_vars

\* "1 2 3 swap swap" has run, "5" is still to be read.
C14_Witness ==
    /\ text = <<{W5}>>
    /\ last.word = WSwap
    /\ last.outcome = "Ok"
    /\ last.before = <<1, 3, 2>>
    /\ stack = <<1, 2, 3>>

\* C18: Over on a stack [.., b, a] of at least two values succeeds and leaves
\* [.., b, a, b]: one value more, the new top equal to the former second
\* value from the top, every earlier value in its place; for the function
\* over on every stack reached and for the last Over the evaluator executed.
C18_Over ==
    /\ Len(stack) >= 2 =>
           over(stack) = Outcome(Append(stack, stack[Len(stack) - 1]), "Ok")
    /\ (last.instruction.op = "Over" /\ Len(last.before) >= 2) =>
           /\ last.outcome = "Ok"
           /\ Len(stack) = Len(last.before) + 1
           /\ stack[Len(stack)] = last.before[Len(last.before) - 1]
           /\ \A i \in 1..Len(last.before) : stack[i] = last.before[i]

\* "1 2 over" has run.
C18_Witness ==
    /\ last.word = WOver
    /\ last.outcome = "Ok"
    /\ last.before = <<1, 2>>
    /\ stack = <<1, 2, 1>>

\* C15: the table is append-only across any sequence of eval calls.  No step
\* shortens it or changes the name or body at an index it has; it grows only
\* when add_definition reads the ";" of a definition, by exactly one entry,
\* placed at the index equal to the length before, also when an entry of the
\* same name exists.
TableStep ==
    /\ Len(definitions') >= Len(definitions)
    /\ \A i \in 1..Len(definitions) : definitions'[i] = definitions[i]
    /\ definitions' # definitions => (pc = "body" /\ pc' = "dispatch")
    /\ (pc = "body" /\ pc' = "dispatch") =>
           /\ Len(definitions') = Len(definitions) + 1
           /\ definitions'[Len(definitions) + 1] =
                  [name |-> to_ascii_uppercase(definition_name),
                   instructions |-> definition_instructions]

C15_AppendOnly == [][TableStep]_vars

\* ": foo 5 ; : foo foo 6 ;" has run: both definitions of foo are kept.
C15_Witness ==
    /\ Len(definitions) = 2
    /\ definitions[1] = [name |-> WFOO, instructions |-> <<W5>>]
    /\ definitions[2] = [name |-> WFOO, instructions |-> <<WFoo, W6>>]

\* C16: definitions cannot be nested.  Under SpecCalls: a ":" read while a
\* body is collected is appended to the body as it is and neither starts a
\* definition nor ends one; a step of the body loop goes on collecting, or
\* ends the body at ";" with exactly one definition appended, whose body holds
\* no ";", or fails; and while a body is executed the evaluator is never in
\* collecting mode and the table does not change.
NestingStep ==
    /\ (pc = "body" /\ entry'.words = Append(entry.words, Colon)) =>
           /\ pc' = "body"
           /\ definition_instructions' = Append(definition_instructions, Colon)
           /\ definitions' = definitions
    /\ pc = "body" =>
           \/ /\ pc' = "body"
              /\ definitions' = definitions
           \/ /\ pc' = "dispatch"
              /\ entry'.words = Append(entry.words, Semicolon)
              /\ Len(definitions') = Len(definitions) + 1
              /\ \A i \in 1..Len(definition_instructions) :
                     definition_instructions[i] # Semicolon
              /\ definitions'[Len(definitions')].instructions
                     = definition_instructions
           \/ /\ pc' = "idle"
              /\ result' = "InvalidWord"
              /\ definitions' = definitions
    /\ pc' = "name" => (pc = "dispatch" /\ frames = <<>>)
    /\ (pc = "call" \/ frames # <<>>) =>
           /\ pc' \notin {"name", "body"}
           /\ definitions' = definitions

C16_NoNesting == [][NestingStep]_vars

\* ": foo : ; foo" has run: the ":" is the body of foo, and executing it as a
\* word of the body failed as an unknown word.
C16_Witness ==
    /\ entry.on
    /\ definitions = <<[name |-> WFOO, instructions |-> <<Colon>>]>>
    /\ last.word = Colon
    /\ last.owner = 0
    /\ last.outcome = "UnknownWord"
    /\ result = "UnknownWord"
    /\ pc = "idle"

\* C17: the two modes touch disjoint halves of the state.  A step of a
\* definition (from its ":" through its ";" or to InvalidWord) leaves the
\* stack alone; a step that executes a word, at the top level or in a body
\* at any depth, successful or not, leaves the table alone.
FrameStep ==
    /\ (pc \in {"name", "body"} \/ pc' = "name") => stack' = stack
    /\ (last' # last \/ pc = "call" \/ pc' = "call" \/ pc' = "dead") =>
           definitions' = definitions
    /\ stack' # stack => (last' # last /\ definitions' = definitions)
    /\ definitions' # definitions => (stack' = stack /\ last' = last)

C17_FrameEffect == [][FrameStep]_vars

\* "5 : foo 6 ;" has run: 5 was pushed while the table was empty, the
\* definition was stored after it and the stack still holds the 5.
C17_Witness ==
    /\ pc = "dispatch"
    /\ stack = <<5>>
    /\ top.word = W5
    /\ top.size = 0
    /\ definitions = <<[name |-> WFOO, instructions |-> <<W6>>]>>

\* C19: numbers cannot be shadowed.  No definition in the table has a name
\* that parses as an integer, and a word that parses as an integer resolves
\* to the push of its value, under every bound and whatever the table holds.
C19_NoShadowedNumber ==
    /\ \A i \in 1..Len(definitions) : ~parse(definitions[i].name).ok
    /\ parse(last.word).ok =>
           last.instruction = Instr("Number", parse(last.word).value)
    /\ \A word \in {W2, WNeg1} :
           \A bound \in 0..Len(definitions) :
               instruction_from_word(word, bound)
                   = Instr("Number", parse(word).value)

\* ": 2" was refused as a definition and "2" then pushed 2.
C19_Witness ==
    /\ definition_name = W2
    /\ definitions = <<>>
    /\ last.word = W2
    /\ last.instruction = Instr("Number", 2)
    /\ stack = <<2>>

\* C20: the front-end keeps no evaluator state of its own.  Under SpecApp,
\* before and after every key event: while the loop runs (and after it has
\* ended) the stack, the definitions and the status shown are what one eval
\* on a fresh evaluator gives for the text of the editor, its lines joined by
\* a tab, and the front-end has died exactly when that eval panics or
\* overflows the call stack; a key event received in Menu mode changes
\* neither the text nor the stack, the definitions or the status; and the
\* loop ends only in Menu mode, on q, while q in Edit mode is typed.
Shown == Forth(stack, definitions, result)

AppStep ==
    /\ Shown = eval(<<>>, <<>>, Words(textarea))
    /\ Shown' = eval(<<>>, <<>>, Words(textarea'))
    /\ pc' = "dead" <=> result' \in Fatal
    /\ input_mode = "Menu" => (textarea' = textarea /\ Shown' = Shown)
    /\ pc' = "quit" =>
           /\ input_mode = "Menu"
           /\ input_mode' = "Menu"
           /\ Char("q") \in Head(keys)
    /\ (input_mode = "Edit" /\ Head(keys) = {Char("q")}) =>
           /\ pc' # "quit"
           /\ textarea' = input(textarea, Char("q"))

C20_FrontEndStateless == [][AppStep]_vars

\* "1 2", Enter, "+" were typed, then Esc and q: the loop has ended in Menu
\* mode showing the sum, the words of the two lines kept apart.
C20_Witness ==
    /\ pc = "quit"
    /\ input_mode = "Menu"
    /\ textarea = << <<"1", " ", "2">>, <<"+">> >>
    /\ stack = <<3>>
    /\ definitions = <<>>
    /\ result = "Ok"

====
